---- MODULE Spec2Model ----
(***************************************************************************)
(* A model of app.py: the Kaizen deck -> executive summary pipeline.       *)
(*                                                                         *)
(* Text is a sequence of one-character strings.  The six template tokens   *)
(* ({{OVERVIEW}} ...) are single, indivisible symbols of that alphabet.    *)
(* The helpers of app.py are operators, computed as the code computes      *)
(* them; the module-level script (one top-to-bottom execution per user     *)
(* interaction) is the state machine Spec.  The helpers are also studied   *)
(* one call at a time, under the specifications SpecExtract, SpecTruncate, *)
(* SpecClean, SpecParse and SpecFill.                                      *)
(***************************************************************************)
EXTENDS Integers, Sequences, FiniteSets, TLC

VARIABLES
    pc,        \* position of the helper call under study
    call,      \* the arguments of the helper call under study
    ret,       \* what the helper call returned or raised
    secrets,   \* st.secrets: the OPENAI_API_KEY value
    widgets,   \* the widget state the browser session holds between reruns
    ui,        \* what the last script execution rendered
    totals     \* presses of the generate button and requests sent, since start

vars == <<pc, call, ret, secrets, widgets, ui, totals>>
appVars == <<secrets, widgets, ui, totals>>
callVars == <<pc, call, ret>>

-----------------------------------------------------------------------------
(* Python strings                                                          *)

Whitespace == {" ", "\n", "\t"}

RECURSIVE LStrip(_)
LStrip(s) ==
    IF s = <<>> THEN <<>>
    ELSE IF Head(s) \in Whitespace THEN LStrip(Tail(s)) ELSE s

RECURSIVE RStrip(_)
RStrip(s) ==
    IF s = <<>> THEN <<>>
    ELSE IF s[Len(s)] \in Whitespace THEN RStrip(SubSeq(s, 1, Len(s) - 1)) ELSE s

\* str.strip()
Strip(s) == RStrip(LStrip(s))

\* sep.join(parts)
RECURSIVE Join(_, _)
Join(sep, parts) ==
    IF parts = <<>> THEN <<>>
    ELSE IF Len(parts) = 1 THEN parts[1]
    ELSE parts[1] \o sep \o Join(sep, Tail(parts))

RECURSIVE Concat(_)
Concat(ss) == IF ss = <<>> THEN <<>> ELSE Head(ss) \o Concat(Tail(ss))

DigitChar(d) == <<"0", "1", "2", "3", "4", "5", "6", "7", "8", "9">>[d + 1]

\* str(n) of a natural number
RECURSIVE IntStr(_)
IntStr(n) == IF n < 10 THEN <<DigitChar(n)>> ELSE IntStr(n \div 10) \o <<DigitChar(n % 10)>>

\* text[:n], n >= 0
Prefix(text, n) == SubSeq(text, 1, IF n < Len(text) THEN n ELSE Len(text))

\* every sequence over S of length at most n
SeqsUpTo(S, n) == UNION {[1..k -> S] : k \in 0..n}

-----------------------------------------------------------------------------
(* truncate_text                                                           *)

TruncationMarker ==
    <<"\n", "\n", "[", "T", "R", "U", "N", "C", "A", "T", "E", "D", " ", "F", "O", "R",
      " ", "C", "O", "S", "T", " ", "C", "O", "N", "T", "R", "O", "L", "]">>

truncate_text_strict(text, max_chars) ==
    IF Len(text) < max_chars THEN text
    ELSE Prefix(text, max_chars) \o TruncationMarker

truncate_text(text, max_chars) ==
    IF Len(text) <= max_chars THEN text
    ELSE Prefix(text, max_chars) \o TruncationMarker

-----------------------------------------------------------------------------
(* extract_slide_text                                                      *)

\* A shape is [hasText, text]: pictures and connectors expose no text.
\* hasattr(shape, "text") and shape.text, and then "if t" for the trimmed t
HasVisibleText(sh) == sh.hasText /\ sh.text # <<>> /\ Strip(sh.text) # <<>>

StripTexts(shapes) == [k \in 1..Len(shapes) |-> Strip(shapes[k].text)]

\* parts, for one slide
ShapeParts(slide) == StripTexts(SelectSeq(slide, HasVisibleText))

SlideLabel(i) == <<"S", "l", "i", "d", "e", " ">> \o IntStr(i) \o <<":">>

\* "if parts: out.append(...)"
SlideBlock(i, parts) ==
    IF parts # <<>> THEN <<SlideLabel(i) \o <<"\n">> \o Join(<<"\n">>, parts)>> ELSE <<>>

RECURSIVE SlideBlocksRenumbered(_, _, _)
SlideBlocksRenumbered(deck, i, k) ==
    IF i > Len(deck) THEN <<>>
    ELSE IF ShapeParts(deck[i]) = <<>> THEN SlideBlocksRenumbered(deck, i + 1, k)
    ELSE SlideBlock(k, ShapeParts(deck[i])) \o SlideBlocksRenumbered(deck, i + 1, k + 1)

extract_slide_text_renumbered(deck) == Join(<<"\n", "\n">>, SlideBlocksRenumbered(deck, 1, 1))

\* out, from slide i on
RECURSIVE SlideBlocksFrom(_, _)
SlideBlocksFrom(deck, i) ==
    IF i > Len(deck) THEN <<>>
    ELSE SlideBlock(i, ShapeParts(deck[i])) \o SlideBlocksFrom(deck, i + 1)

extract_slide_text(deck) == Join(<<"\n", "\n">>, SlideBlocksFrom(deck, 1))

-----------------------------------------------------------------------------
(* JSON values as json.loads builds them.  A value is a tagged record:     *)
(* kind "str" (s), "num" (n), "null", "list" (items) or "dict" (d, a       *)
(* function from its keys to values).  The values drawn in this module are *)
(* strings, naturals, null, lists of those, and dicts of all of them.      *)

Str(s) == [kind |-> "str", s |-> s, n |-> 0, items |-> <<>>]
Num(n) == [kind |-> "num", s |-> <<>>, n |-> n, items |-> <<>>]
Null == [kind |-> "null", s |-> <<>>, n |-> 0, items |-> <<>>]
List(items) == [kind |-> "list", s |-> <<>>, n |-> 0, items |-> items]
Dict(d) == [kind |-> "dict", d |-> d]
EmptyDict == [k \in {} |-> Null]

\* bool(v)
Truthy(v) ==
    CASE v.kind = "str" -> v.s # <<>>
      [] v.kind = "num" -> v.n # 0
      [] v.kind = "list" -> v.items # <<>>
      [] v.kind = "dict" -> DOMAIN v.d # {}
      [] OTHER -> FALSE

\* str(v), for the strings, numbers and None it is applied to here
PyStr(v) ==
    CASE v.kind = "str" -> v.s
      [] v.kind = "num" -> IntStr(v.n)
      [] v.kind = "null" -> <<"N", "o", "n", "e">>

\* What a helper hands back: a value, or the exception it raised.
Returned(v) == [raised |-> "", value |-> v]
Raised(e) == [raised |-> e, value |-> Null]

-----------------------------------------------------------------------------
(* _clean_bullets and _safe_get                                            *)

\* the character class of the regular expression; U+2022 is the bullet glyph
BulletGlyphs == {"-", "*", "U+2022"}

\* re.sub(r"^[bullet glyphs]\s*", "", s)
StripLeadingBullet(s) ==
    IF s # <<>> /\ Head(s) \in BulletGlyphs THEN LStrip(Tail(s)) ELSE s

\* "if s: cleaned.append(s)"
AppendIfText(s) == IF s # <<>> THEN <<s>> ELSE <<>>

\* the body of the loop for one x; <<>> when x contributes nothing
CleanOne(x) ==
    IF ~Truthy(x) THEN <<>> ELSE AppendIfText(StripLeadingBullet(Strip(PyStr(x))))

RECURSIVE CleanAll(_)
CleanAll(xs) == IF xs = <<>> THEN <<>> ELSE CleanOne(Head(xs)) \o CleanAll(Tail(xs))

\* what "for x in items" iterates over: the elements of a list, the
\* characters of a string; a number is not iterable
Iterate(v) ==
    CASE v.kind = "list" -> Returned(v.items)
      [] v.kind = "str" -> Returned([k \in 1..Len(v.s) |-> Str(<<v.s[k]>>)])
      [] OTHER -> Raised("TypeError")

CleanIterated(it) == IF it.raised # "" THEN it ELSE Returned(CleanAll(it.value))

_clean_bullets(items) ==
    IF ~Truthy(items) THEN Returned(<<>>) ELSE CleanIterated(Iterate(items))

\* d.get(key, default), with None replaced by the default
_safe_get(d, key, default) ==
    IF key \in DOMAIN d /\ d[key].kind # "null" THEN d[key] ELSE default

-----------------------------------------------------------------------------
(* The Word document.  A document is a sequence of containers, in the      *)
(* order iter_all_paragraphs visits them: the body first, then every cell  *)
(* of every table.  A container is a sequence of paragraphs; a paragraph   *)
(* is [id, runs, style], id standing for the identity of the paragraph     *)
(* object and runs being the texts of its runs.  The paragraphs of a       *)
(* template are numbered 1..n in document order; nextId numbers the        *)
(* paragraphs the filler creates.                                          *)

Para(id, runs, style) == [id |-> id, runs |-> runs, style |-> style]

\* paragraph.text
ParaText(p) == Concat(p.runs)

Tokens == {"{{OVERVIEW}}", "{{SUMMARY}}", "{{CHALLENGES}}", "{{IMPROVEMENTS}}",
           "{{BENEFITS}}", "{{PLAN}}"}

TBD == <<"T", "B", "D">>

\* new_text is written into the first run and the other runs are emptied;
\* a paragraph without runs gets its text set, which makes one run
_replace_paragraph_text_preserve_style(p, new_text) ==
    IF p.runs # <<>>
    THEN [p EXCEPT !.runs = [k \in 1..Len(p.runs) |-> IF k = 1 THEN new_text ELSE <<>>]]
    ELSE [p EXCEPT !.runs = <<new_text>>]

PositionOf(paras, id) == CHOOSE k \in 1..Len(paras) : paras[k].id = id

\* paragraph.insert_paragraph_after(text) and "new_p.style = bullet_style":
\* a new paragraph object right after the paragraph at position pos.  The
\* method belongs to the Word library, which app.py imports; it is taken to
\* do what the docstring of _insert_paragraph_after says.
_insert_paragraph_after(paras, pos, newId, text, bullet_style) ==
    SubSeq(paras, 1, pos)
        \o <<Para(newId, IF text = <<>> THEN <<>> ELSE <<text>>, bullet_style)>>
        \o SubSeq(paras, pos + 1, Len(paras))

RECURSIVE InsertBullets_sameanchor(_, _, _, _, _)
InsertBullets_sameanchor(paras, anchor, nextId, items, bullet_style) ==
    IF items = <<>> THEN [paras |-> paras, nextId |-> nextId]
    ELSE InsertBullets_sameanchor(
             _insert_paragraph_after(paras, PositionOf(paras, anchor), nextId, Head(items),
                                     bullet_style),
             anchor, nextId + 1, Tail(items), bullet_style)

\* the loop over items[1:]: one paragraph per item, each after the last
RECURSIVE InsertBullets(_, _, _, _, _)
InsertBullets(paras, anchor, nextId, items, bullet_style) ==
    IF items = <<>> THEN [paras |-> paras, nextId |-> nextId]
    ELSE InsertBullets(
             _insert_paragraph_after(paras, PositionOf(paras, anchor), nextId, Head(items),
                                     bullet_style),
             nextId, nextId + 1, Tail(items), bullet_style)

RawText_unstripped(p) == ParaText(p)

\* raw = (p.text or "").strip()
RawText(p) == Strip(ParaText(p))

\* raw in placeholder_map
IsPlaceholder(raw) == Len(raw) = 1 /\ raw[1] \in Tokens

\* the text a matched paragraph receives: the value of a "para" entry, the
\* first item of a "bullets" entry, "TBD" for a "bullets" entry without items
FirstText(entry) ==
    IF entry.kind = "para" THEN entry.text
    ELSE IF entry.items = <<>> THEN TBD ELSE Head(entry.items)

\* items[1:] of a "bullets" entry
RestItems(entry) ==
    IF entry.kind = "bullets" /\ entry.items # <<>> THEN Tail(entry.items) ELSE <<>>

\* the branches of the loop body for a paragraph that matched
ReplaceAt(paras, nextId, pos, entry) ==
    InsertBullets(
        [paras EXCEPT ![pos] = _replace_paragraph_text_preserve_style(@, FirstText(entry))],
        paras[pos].id, nextId, RestItems(entry), paras[pos].style)

\* the body of the loop for the paragraph at position pos
FillAt(paras, nextId, pos, pmap) ==
    IF IsPlaceholder(RawText(paras[pos]))
    THEN ReplaceAt(paras, nextId, pos, pmap[RawText(paras[pos])[1]])
    ELSE [paras |-> paras, nextId |-> nextId]

\* "for p in ...paragraphs" walks the list of paragraph objects the
\* container held when the walk of it began
RECURSIVE FillSnapshot(_, _, _)
FillSnapshot(r, snapshot, pmap) ==
    IF snapshot = <<>> THEN r
    ELSE FillSnapshot(
             FillAt(r.paras, r.nextId, PositionOf(r.paras, Head(snapshot)), pmap),
             Tail(snapshot), pmap)

Ids(paras) == [k \in 1..Len(paras) |-> paras[k].id]

\* the document with container c replaced by what the walk of it left
WithContainer(d, c, r) == [doc |-> [d.doc EXCEPT ![c] = r.paras], nextId |-> r.nextId]

\* iter_all_paragraphs, with the loop body applied to what it yields
RECURSIVE FillContainers(_, _, _)
FillContainers(d, c, pmap) ==
    IF c > Len(d.doc) THEN d.doc
    ELSE FillContainers(
             WithContainer(d, c,
                 FillSnapshot([paras |-> d.doc[c], nextId |-> d.nextId], Ids(d.doc[c]),
                              pmap)),
             c + 1, pmap)

NoDoc == <<>>
Corrupt == [corrupt |-> TRUE, doc |-> NoDoc]
Template(doc) == [corrupt |-> FALSE, doc |-> doc]

ParaCount(doc) == Len(Concat(doc))

ParaEntry(text) == [kind |-> "para", text |-> text, items |-> <<>>]
BulletsEntry(r) == [kind |-> "bullets", text |-> <<>>, items |-> r.value]

placeholder_map(overview, summary, challenges, improvements, benefits, plan) ==
    [t \in Tokens |->
        CASE t = "{{OVERVIEW}}" -> ParaEntry(overview)
          [] t = "{{SUMMARY}}" -> ParaEntry(summary)
          [] t = "{{CHALLENGES}}" -> BulletsEntry(challenges)
          [] t = "{{IMPROVEMENTS}}" -> BulletsEntry(improvements)
          [] t = "{{BENEFITS}}" -> BulletsEntry(benefits)
          [] t = "{{PLAN}}" -> BulletsEntry(plan)]

\* the filler from "placeholder_map = ..." on, given the normalized content
FillNormalized(doc, overview, summary, challenges, improvements, benefits, plan) ==
    IF challenges.raised # "" \/ improvements.raised # ""
       \/ benefits.raised # "" \/ plan.raised # ""
    THEN [raised |-> "TypeError", doc |-> NoDoc]
    ELSE [raised |-> "",
          doc |-> FillContainers([doc |-> doc, nextId |-> ParaCount(doc) + 1], 1,
                      placeholder_map(overview, summary, challenges, improvements,
                                      benefits, plan))]

\* fill_placeholders_in_template: the filled document, or the exception
fill_placeholders_in_template(template, content) ==
    IF template.corrupt THEN [raised |-> "BadZipFile", doc |-> NoDoc]
    ELSE IF content.kind # "dict" THEN [raised |-> "AttributeError", doc |-> NoDoc]
    ELSE FillNormalized(template.doc,
             Strip(PyStr(_safe_get(content.d, "overview", Str(<<>>)))),
             Strip(PyStr(_safe_get(content.d, "summary", Str(<<>>)))),
             _clean_bullets(_safe_get(content.d, "challenges", List(<<>>))),
             _clean_bullets(_safe_get(content.d, "improvements", List(<<>>))),
             _clean_bullets(_safe_get(content.d, "benefits", List(<<>>))),
             _clean_bullets(_safe_get(content.d, "plan", List(<<>>))))

-----------------------------------------------------------------------------
(* The response text and json.loads.  The text is a sequence of lexical    *)
(* symbols: the punctuation of JSON, white space, "x" for any character    *)
(* that is not JSON, scalar literals, and members ("key": value) of an     *)
(* object.  Structure is parsed; the inside of a literal or member is not. *)

Literals ==
    [a \in {"42", "'X'", "null"} |->
        CASE a = "42" -> Num(42)
          [] a = "'X'" -> Str(<<"X">>)
          [] a = "null" -> Null]

Members ==
    [a \in {"overview:X", "overview:null", "summary:Y", "challenges:[a,b]",
            "challenges:a", "challenges:7", "plan:[-a,,*]"} |->
        CASE a = "overview:X" -> [key |-> "overview", val |-> Str(<<"X">>)]
          [] a = "overview:null" -> [key |-> "overview", val |-> Null]
          [] a = "summary:Y" -> [key |-> "summary", val |-> Str(<<"Y">>)]
          [] a = "challenges:[a,b]" ->
                [key |-> "challenges", val |-> List(<<Str(<<"a">>), Str(<<"b">>)>>)]
          [] a = "challenges:a" -> [key |-> "challenges", val |-> Str(<<"a">>)]
          [] a = "challenges:7" -> [key |-> "challenges", val |-> Num(7)]
          [] a = "plan:[-a,,*]" ->
                [key |-> "plan",
                 val |-> List(<<Str(<<"-", " ", "a">>), Str(<<>>), Str(<<"*">>)>>)]]

ParseFail == [ok |-> FALSE, next |-> 0, val |-> Null]
ParseOk(next, val) == [ok |-> TRUE, next |-> next, val |-> val]

At(t, i) == IF i \in 1..Len(t) THEN t[i] ELSE "EOF"

\* d with the member m set; a key given twice keeps its last value
WithMember(d, m) == [k \in DOMAIN d \cup {m.key} |-> IF k = m.key THEN m.val ELSE d[k]]

\* the members of an object, from position i on
RECURSIVE ParseMembers(_, _, _)
ParseMembers(t, i, d) ==
    IF At(t, i) \notin DOMAIN Members THEN ParseFail
    ELSE CASE At(t, i + 1) = "," -> ParseMembers(t, i + 2, WithMember(d, Members[t[i]]))
           [] At(t, i + 1) = "}" -> ParseOk(i + 2, Dict(WithMember(d, Members[t[i]])))
           [] OTHER -> ParseFail

\* a literal, an object or an empty array at position i
ParseSimple(t, i) ==
    CASE At(t, i) \in DOMAIN Literals -> ParseOk(i + 1, Literals[t[i]])
      [] At(t, i) = "[" /\ At(t, i + 1) = "]" -> ParseOk(i + 2, List(<<>>))
      [] At(t, i) = "{" /\ At(t, i + 1) = "}" -> ParseOk(i + 2, Dict(EmptyDict))
      [] At(t, i) = "{" -> ParseMembers(t, i + 1, EmptyDict)
      [] OTHER -> ParseFail

\* open with v appended to the elements of the innermost array
WithElement(open, v) == [open EXCEPT ![Len(open)] = Append(@, v)]

\* The value at position i.  open holds, innermost last, the elements read
\* so far of every array not closed yet; r is the simple value at i, if
\* any; expect is "value" or "sep" (a comma or the closing bracket of the
\* innermost array).
RECURSIVE ParseValue(_, _, _, _, _)
ParseValue(t, i, open, expect, r) ==
    IF expect = "value"
    THEN IF At(t, i) = "[" /\ At(t, i + 1) # "]"
         THEN ParseValue(t, i + 1, Append(open, <<>>), "value", ParseSimple(t, i + 1))
         ELSE IF ~r.ok THEN ParseFail
         ELSE IF open = <<>> THEN r
         ELSE ParseValue(t, r.next, WithElement(open, r.val), "sep", ParseFail)
    ELSE CASE At(t, i) = "," -> ParseValue(t, i + 1, open, "value", ParseSimple(t, i + 1))
           [] At(t, i) = "]" /\ Len(open) = 1 -> ParseOk(i + 1, List(open[1]))
           [] At(t, i) = "]" ->
                ParseValue(t, i + 1,
                           WithElement(SubSeq(open, 1, Len(open) - 1), List(open[Len(open)])),
                           "sep", ParseFail)
           [] OTHER -> ParseFail

\* the whole of t must be one value
WholeValue(t, r) ==
    IF r.ok /\ r.next = Len(t) + 1 THEN Returned(r.val) ELSE Raised("JSONDecodeError")

WithoutWhitespace(text) == SelectSeq(text, LAMBDA a : a \notin Whitespace)

JsonLoadsTokens(t) == WholeValue(t, ParseValue(t, 1, <<>>, "value", ParseSimple(t, 1)))

\* json.loads(text): the value, or JSONDecodeError
JsonLoads(text) == JsonLoadsTokens(WithoutWhitespace(text))

\* re.search(r"\{.*\}", text, flags=re.S): the span from the first "{" to
\* the last "}" after it; <<>> when there is no match
BraceSpan(text) ==
    LET opens == {i \in 1..Len(text) : text[i] = "{"}
        closes == {j \in 1..Len(text) : text[j] = "}"}
    IN  IF opens = {} \/ closes = {} THEN <<>>
        ELSE LET i == CHOOSE a \in opens : \A b \in opens : a <= b
                 j == CHOOSE a \in closes : \A b \in closes : a >= b
             IN  IF i < j THEN SubSeq(text, i, j) ELSE <<>>

\* What client.responses.create did: raised, or answered with output_text
\* (None or a text).
ApiRaised(e) == [raised |-> e, none |-> FALSE, output_text |-> <<>>]
ApiText(text) == [raised |-> "", none |-> FALSE, output_text |-> text]
ApiNone == [raised |-> "", none |-> TRUE, output_text |-> <<>>]

\* the except branch: the first {...} span, or ValueError
ParseFallback(m) == IF m = <<>> THEN Raised("ValueError") ELSE JsonLoads(m)

\* try json.loads(text), except: the fallback
ParseText(text, strict) == IF strict.raised = "" THEN strict ELSE ParseFallback(BraceSpan(text))

ParseStripped(text) == ParseText(text, JsonLoads(text))

\* text = (resp.output_text or "").strip(), and the parsing of it
ParseResponse(resp) == ParseStripped(Strip(IF resp.none THEN <<>> ELSE resp.output_text))

\* one call of client.responses.create was made
Requested(r) == [requests |-> 1, raised |-> r.raised, value |-> r.value]

generate_structured_sections_retry(resp) ==
    IF resp.raised # "" THEN [requests |-> 2, raised |-> resp.raised, value |-> Null]
    ELSE Requested(ParseResponse(resp))

\* generate_structured_sections: [requests, raised, value]; requests counts
\* the calls of client.responses.create
generate_structured_sections(resp) ==
    IF resp.raised # "" THEN [requests |-> 1, raised |-> resp.raised, value |-> Null]
    ELSE Requested(ParseResponse(resp))

-----------------------------------------------------------------------------
(* The script.  Every user interaction makes the framework execute the     *)
(* module top to bottom once; st.stop() and an uncaught exception end the  *)
(* execution there.                                                        *)

SliderMin == 5000
SliderMax == 60000
SliderStep == 5000
SliderDefault == 20000
SliderValues == {SliderMin + k * SliderStep : k \in 0..((SliderMax - SliderMin) \div SliderStep)}

ApiErrors == {"AuthenticationError", "RateLimitError", "APIConnectionError",
              "APIStatusError", "TimeoutError"}

\* the message of the except clause that catches e
ErrorMessage(e) ==
    CASE e = "AuthenticationError" -> "OpenAI authentication failed."
      [] e = "RateLimitError" -> "Quota/rate limit hit."
      [] e = "APIConnectionError" -> "Network/API connection error."
      [] e = "APIStatusError" -> "OpenAI API returned an error"
      [] OTHER -> "Unexpected error"

\* What the button's branch did: the requests it sent, how far it came,
\* the exception caught, and what it rendered.
NoHandler ==
    [requests |-> 0, generated |-> FALSE, filled |-> FALSE, raised |-> "",
     errors |-> <<>>, success |-> FALSE, download |-> FALSE, final_docx |-> NoDoc,
     preview |-> FALSE]

OnException_silent(h, e) == [h EXCEPT !.raised = e]

\* the except clauses: the exception is caught and one message is shown
OnException(h, e) == [h EXCEPT !.raised = e, !.errors = Append(h.errors, ErrorMessage(e))]

\* "final_docx = fill_placeholders_in_template(...)" and the rest of the try block
HandlerFilled(h, final) ==
    IF final.raised # "" THEN OnException(h, final.raised)
    ELSE [h EXCEPT !.filled = TRUE, !.success = TRUE, !.download = TRUE,
                   !.final_docx = final.doc, !.preview = TRUE]

\* the try block from the return of generate_structured_sections on
HandlerGenerated(sections, template) ==
    IF sections.raised # ""
    THEN OnException([NoHandler EXCEPT !.requests = sections.requests], sections.raised)
    ELSE HandlerFilled([NoHandler EXCEPT !.requests = sections.requests, !.generated = TRUE],
                       fill_placeholders_in_template(template, sections.value))

\* the body of "if st.button(...)": the try block and its except clauses
Handler(template, resp) == HandlerGenerated(generate_structured_sections(resp), template)

\* the generation service was not called
NotCalled == [raised |-> "not called", none |-> FALSE, output_text |-> <<>>]

\* What one execution rendered.  stopped: "" | "secrets" | "files";
\* uncaught: the exception that ended the execution outside the try block;
\* resp: what the generation service did when this execution called it.
NoUi ==
    [ran |-> FALSE, warning |-> FALSE, stopped |-> "", uncaught |-> "", slider |-> FALSE,
     slide_text |-> <<>>, button |-> FALSE, pressed |-> FALSE, resp |-> NotCalled,
     handler |-> NoHandler]

\* the uploaded files the script may meet
NoFile == "None"

AppDecks ==
    [f \in {"deck.pptx", "empty.pptx"} |->
        IF f = "deck.pptx"
        THEN << <<[hasText |-> TRUE, text |-> <<"a", " ">>]>>, <<>>,
                <<[hasText |-> FALSE, text |-> <<>>], [hasText |-> TRUE, text |-> <<"b">>]>> >>
        ELSE <<>>]

CorruptPptx == "corrupt.pptx"

AppTemplates ==
    [f \in {"full.docx", "partial.docx", "corrupt.docx"} |->
        CASE f = "full.docx" ->
               Template(<< <<Para(1, << <<"a">> >>, "Title"),
                             Para(2, << <<"{{OVERVIEW}}">> >>, "Normal"),
                             Para(3, << <<"{{CHALLENGES}}">> >>, "List Bullet"),
                             Para(4, << <<"{{IMPROVEMENTS}}">> >>, "List Bullet"),
                             Para(5, << <<"{{BENEFITS}}">> >>, "List Bullet"),
                             Para(6, << <<"{{PLAN}}">> >>, "List Bullet"),
                             Para(7, << <<"{{SUMMARY}}">> >>, "Normal")>> >>)
          [] f = "partial.docx" ->
               Template(<< <<Para(1, << <<"{{OVERVIEW}}">> >>, "Normal")>>,
                           <<Para(2, << <<" ">>, <<"{{CHALLENGES}}">> >>, "List Bullet")>> >>)
          [] f = "corrupt.docx" -> Corrupt]

\* what the generation service may do in one call
AppResponses ==
    {ApiRaised(e) : e \in ApiErrors} \cup {ApiNone}
    \cup {ApiText(t) : t \in {
            <<"{", "overview:X", ",", "challenges:[a,b]", ",", "summary:Y", "}">>,
            <<"x", " ", "{", "overview:X", "}", " ", "x">>,
            <<"{", "challenges:7", "}">>,
            <<"{", "x", "}">>,
            <<"[", "42", "]">>,
            <<"x">>}}

\* the module, top to bottom, with the button reporting `pressed` and the
\* generation service answering `resp` if it is called
Script(api_secret, w, pressed, resp) ==
    IF Strip(api_secret) = <<>>
    THEN [NoUi EXCEPT !.ran = TRUE, !.warning = TRUE, !.stopped = "secrets"]
    ELSE IF w.pptx_file = NoFile \/ w.template_file = NoFile
    THEN [NoUi EXCEPT !.ran = TRUE, !.stopped = "files"]
    ELSE IF w.pptx_file = CorruptPptx
    THEN [NoUi EXCEPT !.ran = TRUE, !.slider = TRUE, !.uncaught = "PackageNotFoundError"]
    ELSE [NoUi EXCEPT
            !.ran = TRUE, !.slider = TRUE,
            !.slide_text = truncate_text(extract_slide_text(AppDecks[w.pptx_file]),
                                         w.max_chars),
            !.button = TRUE, !.pressed = pressed,
            !.resp = IF pressed THEN resp ELSE NotCalled,
            !.handler = IF pressed THEN Handler(AppTemplates[w.template_file], resp)
                        ELSE NoHandler]

\* one execution of the script, after the interaction left the widgets as w
Rerun(w, pressed) ==
    \E resp \in AppResponses :
        /\ widgets' = w
        /\ ui' = Script(secrets, w, pressed, resp)
        /\ totals' = [presses |-> totals.presses + (IF pressed THEN 1 ELSE 0),
                      requests |-> totals.requests + ui'.handler.requests]
        /\ UNCHANGED <<secrets, callVars>>

\* the bound on the presses of one behaviour
MaxPresses == 2

\* the page is opened or reloaded
Reload == Rerun(widgets, FALSE)

\* a deck is uploaded, replaced or removed
UploadPptx ==
    \E f \in DOMAIN AppDecks \cup {CorruptPptx, NoFile} :
        /\ ui.ran /\ ui.stopped # "secrets"
        /\ f # widgets.pptx_file
        /\ Rerun([widgets EXCEPT !.pptx_file = f], FALSE)

\* a template is uploaded, replaced or removed
UploadTemplate ==
    \E f \in DOMAIN AppTemplates \cup {NoFile} :
        /\ ui.ran /\ ui.stopped # "secrets"
        /\ f # widgets.template_file
        /\ Rerun([widgets EXCEPT !.template_file = f], FALSE)

\* the slider is moved
MoveSlider ==
    \E v \in SliderValues :
        /\ ui.slider
        /\ v # widgets.max_chars
        /\ Rerun([widgets EXCEPT !.max_chars = v], FALSE)

\* the generate button is pressed: st.button returns True in the execution
\* the press triggers
PressGenerate ==
    /\ ui.button
    /\ totals.presses < MaxPresses
    /\ Rerun(widgets, TRUE)

NoCall == [fn |-> "none"]

\* before the first execution
AppStart ==
    /\ widgets = [pptx_file |-> NoFile, template_file |-> NoFile, max_chars |-> SliderDefault]
    /\ ui = NoUi
    /\ totals = [presses |-> 0, requests |-> 0]

Init ==
    /\ secrets \in {<<>>, <<" ">>, <<"s", "k">>}
    /\ AppStart
    /\ pc = "idle" /\ call = NoCall /\ ret = NoCall

Next == Reload \/ UploadPptx \/ UploadTemplate \/ MoveSlider \/ PressGenerate

Spec == Init /\ [][Next]_vars

-----------------------------------------------------------------------------
(* One call of a helper: Init draws the arguments, the action applies it.  *)

CallInit(args) ==
    /\ pc = "ready" /\ call \in args /\ ret = NoCall
    /\ secrets = <<>> /\ AppStart

\* ---- extract_slide_text

Shape(text) == [hasText |-> TRUE, text |-> text]
Picture == [hasText |-> FALSE, text |-> <<>>]

SlideChoices ==
    { <<>>,
      <<Picture>>,
      <<Shape(<<" ", "\n">>), Shape(<<>>)>>,
      <<Shape(<<"a">>)>>,
      <<Picture, Shape(<<" ", "a", "\n">>), Shape(<<"b", "\n", "\n", "b">>)>>,
      <<Shape(<<>>), Shape(<<"b">>)>> }

MaxSlides == 3

ExtractInit == CallInit([deck : SeqsUpTo(SlideChoices, MaxSlides)])

Extract ==
    /\ pc = "ready"
    /\ ret' = [text |-> extract_slide_text(call.deck)]
    /\ pc' = "done"
    /\ UNCHANGED <<call, appVars>>

SpecExtract == ExtractInit /\ [][Extract]_vars

\* ---- truncate_text, applied once and then again to its own result

MaxTextLen == 2
MaxBudget == 32

TruncateInit ==
    CallInit([text : SeqsUpTo({"a", "\n"}, MaxTextLen), m : 0..MaxBudget, m2 : 0..MaxBudget])

TruncateOnce ==
    /\ pc = "ready"
    /\ ret' = [first |-> truncate_text(call.text, call.m), second |-> <<>>]
    /\ pc' = "once"
    /\ UNCHANGED <<call, appVars>>

TruncateAgain ==
    /\ pc = "once"
    /\ ret' = [ret EXCEPT !.second = truncate_text(ret.first, call.m2)]
    /\ pc' = "done"
    /\ UNCHANGED <<call, appVars>>

SpecTruncate == TruncateInit /\ [][TruncateOnce \/ TruncateAgain]_vars

\* ---- the normalization of a list key: _clean_bullets(_safe_get(...))

ItemChoices ==
    {Str(<<>>), Str(<<"a">>), Str(<<" ", "b", " ">>), Str(<<"-", " ", "a">>), Str(<<"*">>),
     Str(<<"U+2022", "-", "a">>), Null, Num(0), Num(5)}

MaxItems == 3

ListValues ==
    {Null, Num(0), Num(7), Str(<<>>), Str(<<"a">>), Str(<<"a", "b">>), Str(<<"-", " ", "a">>)}
    \cup {List(items) : items \in SeqsUpTo(ItemChoices, MaxItems)}

CleanInit ==
    CallInit({[d |-> EmptyDict]} \cup {[d |-> [k \in {"challenges"} |-> v]] : v \in ListValues})

Normalize ==
    /\ pc = "ready"
    /\ ret' = _clean_bullets(_safe_get(call.d, "challenges", List(<<>>)))
    /\ pc' = "done"
    /\ UNCHANGED <<call, appVars>>

SpecClean == CleanInit /\ [][Normalize]_vars

\* ---- generate_structured_sections

RespAlphabet == {"{", "}", "[", "]", ",", " ", "x", "42", "overview:X"}

MaxRespLen == 4

ResponseTexts ==
    SeqsUpTo(RespAlphabet, MaxRespLen)
    \cup { <<"x", " ", "{", "overview:X", "}", " ", "x">>,
           <<"{", "overview:X", "}", "x", "{", "overview:X", "}">>,
           <<"[", "[", "42", "]", ",", "{", "overview:X", "}", "]">>,
           <<" ", "{", "overview:X", ",", "summary:Y", ",", "overview:null", "}", "\n">> }

ParseInit ==
    CallInit([resp : {ApiRaised(e) : e \in ApiErrors} \cup {ApiNone}
                     \cup {ApiText(t) : t \in ResponseTexts}])

Generate ==
    /\ pc = "ready"
    /\ ret' = generate_structured_sections(call.resp)
    /\ pc' = "done"
    /\ UNCHANGED <<call, appVars>>

SpecParse == ParseInit /\ [][Generate]_vars

\* ---- fill_placeholders_in_template

TokenOrder ==
    <<"{{OVERVIEW}}", "{{CHALLENGES}}", "{{IMPROVEMENTS}}", "{{BENEFITS}}", "{{PLAN}}",
      "{{SUMMARY}}">>

ScalarTokens == {"{{OVERVIEW}}", "{{SUMMARY}}"}

\* a paragraph of a template before its numbering
Raw(runs, style) == [runs |-> runs, style |-> style]

AnchorStyle(tok) == IF tok \in ScalarTokens THEN "Normal" ELSE "List Bullet"

\* the token alone in its paragraph: in one run, or between runs of white space
Anchor(tok, padded) ==
    Raw(IF padded THEN << <<" ">>, <<tok>>, <<"\n">> >> ELSE << <<tok>> >>, AnchorStyle(tok))

Anchors(toks, padded) == [k \in 1..Len(toks) |-> Anchor(toks[k], padded)]

Heading == Raw(<< <<"a">> >>, "Title")
EmptyParagraph == Raw(<<>>, "Normal")

Present(missing) == SelectSeq(TokenOrder, LAMBDA t : t \notin missing)

Layouts == {"plain", "padded", "table", "embedded", "twice"}

PlainBody(missing) == <<Heading>> \o Anchors(Present(missing), FALSE) \o <<EmptyParagraph>>

Cells(toks) == [k \in 1..Len(toks) |-> <<Anchor(toks[k], FALSE), Raw(<< <<"a">> >>, "Normal")>>]

Layout(l, missing) ==
    CASE l = "plain" -> <<PlainBody(missing)>>
      [] l = "padded" ->
            << <<Heading>> \o Anchors(Present(missing), TRUE) \o <<Raw(<< <<"b">> >>, "Normal")>> >>
      [] l = "table" ->
            << <<Heading>>
               \o Anchors(SelectSeq(Present(missing), LAMBDA t : t \in ScalarTokens), FALSE) >>
            \o Cells(SelectSeq(Present(missing), LAMBDA t : t \notin ScalarTokens))
      [] l = "embedded" ->
            << PlainBody(missing) \o <<Raw(<< <<"a", " ">>, <<"{{PLAN}}">> >>, "Normal")>> >>
      [] l = "twice" ->
            << PlainBody(missing)
               \o (IF "{{CHALLENGES}}" \in missing THEN <<>>
                   ELSE <<Raw(<< <<"{{CHALLENGES}}">> >>, "Quote")>>) >>

\* the paragraphs numbered 1..n in document order
Numbered(cs) ==
    [c \in 1..Len(cs) |->
        [k \in 1..Len(cs[c]) |->
            Para(ParaCount(SubSeq(cs, 1, c - 1)) + k, cs[c][k].runs, cs[c][k].style)]]

\* at most this many of the six tokens are left out of a template
MaxMissing == 1

FillTemplates ==
    {Corrupt}
    \cup {Template(Numbered(Layout(l, missing))) :
            l \in Layouts, missing \in {m \in SUBSET Tokens : Cardinality(m) <= MaxMissing}}

Absent == [kind |-> "absent", s |-> <<>>, n |-> 0, items |-> <<>>]

ContentChoices ==
    [overview : {Absent, Null, Str(<<>>), Str(<<" ">>), Str(<<" ", "a", " ">>),
                 Str(<<"{{SUMMARY}}">>)},
     summary : {Absent, Str(<<"b">>)},
     challenges : {Absent, Null, List(<<>>), List(<<Str(<<"a">>)>>),
                   List(<<Str(<<"a">>), Str(<<"b">>), Str(<<"a", "b">>)>>),
                   List(<<Str(<<"-", " ", "a">>), Str(<<>>), Null, Str(<<"*">>),
                          Str(<<" ", "b">>)>>),
                   List(<<Str(<<"{{PLAN}}">>), Str(<<"{{CHALLENGES}}">>)>>),
                   Str(<<"a", "b">>), Num(7)},
     improvements : {List(<<>>), List(<<Str(<<"a">>), Str(<<"b">>)>>)},
     benefits : {List(<<Str(<<"b">>)>>)},
     plan : {Absent, List(<<Str(<<"a">>), Str(<<"b">>)>>)}]

Keys == {"overview", "summary", "challenges", "improvements", "benefits", "plan"}

Content(c) == Dict([k \in {x \in Keys : c[x].kind # "absent"} |-> c[k]])

FillContents == {List(<<>>)} \cup {Content(c) : c \in ContentChoices}

FillInit == CallInit([template : FillTemplates, content : FillContents])

Fill ==
    /\ pc = "ready"
    /\ ret' = fill_placeholders_in_template(call.template, call.content)
    /\ pc' = "done"
    /\ UNCHANGED <<call, appVars>>

SpecFill == FillInit /\ [][Fill]_vars

-----------------------------------------------------------------------------
(* The claims.                                                             *)

AllParas(doc) == Concat(doc)

HasToken(text) == \E i \in 1..Len(text) : text[i] \in Tokens

\* the paragraph is an anchor of tok: its trimmed text is the token
IsAnchorOf(p, tok) == Strip(ParaText(p)) = <<tok>>

IsAnchor(p) == \E tok \in Tokens : IsAnchorOf(p, tok)

\* tok occurs in no paragraph of the document
TokenAbsent(doc, tok) ==
    \A k \in 1..Len(AllParas(doc)) :
        \A i \in 1..Len(ParaText(AllParas(doc)[k])) : ParaText(AllParas(doc)[k])[i] # tok

FillRan == pc = "done" /\ ~call.template.corrupt /\ call.content.kind = "dict"

KeyOf(tok) ==
    CASE tok = "{{OVERVIEW}}" -> "overview"
      [] tok = "{{SUMMARY}}" -> "summary"
      [] tok = "{{CHALLENGES}}" -> "challenges"
      [] tok = "{{IMPROVEMENTS}}" -> "improvements"
      [] tok = "{{BENEFITS}}" -> "benefits"
      [] tok = "{{PLAN}}" -> "plan"

\* the value the content gives a key; Absent when it gives none
Field(key) == IF key \in DOMAIN call.content.d THEN call.content.d[key] ELSE Absent

\* the paragraph of the filled document that is the template's paragraph id
OutPara(id) == CHOOSE p \in {AllParas(ret.doc)[k] : k \in 1..Len(AllParas(ret.doc))} : p.id = id

\* C1: a template that lacks one of the six tokens makes the filler fail:
\* it raises and hands back no document.
C1_MissingTokenFails ==
    (FillRan /\ \E tok \in Tokens : TokenAbsent(call.template.doc, tok))
        => (ret.raised # "" /\ ret.doc = NoDoc)

AllTokensPresent == \A tok \in Tokens : ~TokenAbsent(call.template.doc, tok)

Populated(v) ==
    \/ v.kind = "str" /\ Strip(v.s) # <<>>
    \/ v.kind = "list" /\ v.items # <<>>

AllPopulated ==
    /\ \A key \in {"overview", "summary"} : Field(key).kind = "str" /\ Populated(Field(key))
    /\ \A key \in Keys \ {"overview", "summary"} : Populated(Field(key))

NoTokenRemains ==
    /\ ret.raised = ""
    /\ \A k \in 1..Len(AllParas(ret.doc)) : ~HasToken(ParaText(AllParas(ret.doc)[k]))

TokensStandAlone ==
    \A k \in 1..Len(AllParas(call.template.doc)) :
        HasToken(ParaText(AllParas(call.template.doc)[k]))
            => IsAnchor(AllParas(call.template.doc)[k])

ValueHasToken(v) ==
    \/ v.kind = "str" /\ HasToken(v.s)
    \/ v.kind = "list" /\ \E j \in 1..Len(v.items) : HasToken(v.items[j].s)

NoTokenInContent == \A key \in Keys : ~ValueHasToken(Field(key))

FieldEmpty(v) ==
    \/ v.kind \in {"absent", "null"}
    \/ v.kind = "str" /\ v.s = <<>>
    \/ v.kind = "list" /\ v.items = <<>>

\* C3: after filling, every anchor of a field that is empty, missing or
\* null reads "TBD", scalar fields and list fields alike, and the document
\* has no more paragraphs than the template.
C3_EmptyBecomesTBD ==
    (FillRan /\ ret.raised = "")
        => \A k \in 1..Len(AllParas(call.template.doc)) :
              \A tok \in Tokens :
                 (IsAnchorOf(AllParas(call.template.doc)[k], tok) /\ FieldEmpty(Field(KeyOf(tok))))
                    => ParaText(OutPara(AllParas(call.template.doc)[k].id)) = TBD

\* the normalized items of the list field of tok
Items(tok) == _clean_bullets(_safe_get(call.content.d, KeyOf(tok), List(<<>>))).value

\* the anchors of list fields with at least one item, in container c
ListAnchor(p, tok) == tok \notin ScalarTokens /\ IsAnchorOf(p, tok) /\ Items(tok) # <<>>

\* the paragraphs the filler adds for the template paragraph p
Added(p) ==
    IF \E tok \in Tokens : ListAnchor(p, tok)
    THEN Len(Items(CHOOSE tok \in Tokens : ListAnchor(p, tok))) - 1
    ELSE 0

RECURSIVE SumAdded(_)
SumAdded(paras) == IF paras = <<>> THEN 0 ELSE Added(Head(paras)) + SumAdded(Tail(paras))

\* where the template paragraph k of container c is expected in the output
ExpectedPos(c, k) == k + SumAdded(SubSeq(call.template.doc[c], 1, k - 1))

IsOriginal(p) == p.id <= ParaCount(call.template.doc)

C4_TruncateIdempotent ==
    pc = "done"
        => /\ call.m <= call.m2 => ret.second = ret.first
           /\ call.m >= Len(call.text) => ret.first = call.text

\* the second budget leaves room for the marker the first call appended
MarkerFits == call.m2 = call.m \/ call.m2 >= call.m + Len(TruncationMarker)

\* C4 as amended: for budgets m <= m2, truncating the result of
\* truncate_text(t, m) with m2 changes nothing whenever t fits in m, or
\* m2 = m, or m2 is at least m plus the length of the marker; and a budget
\* of at least the length of the text returns the text unchanged.
C4_TruncateIdempotentAmended ==
    pc = "done"
        => /\ (call.m <= call.m2 /\ (Len(call.text) <= call.m \/ MarkerFits))
                => ret.second = ret.first
           /\ call.m >= Len(call.text) => ret.first = call.text

C4_Witness ==
    /\ pc = "done"
    /\ Len(call.text) > call.m
    /\ call.m2 >= call.m + Len(TruncationMarker)
    /\ ret.first # call.text
    /\ Len(ret.first) = call.m + Len(TruncationMarker)
    /\ ret.second = ret.first

\* ---- generate_structured_sections

\* C5: one request is made, and a value returned without an exception is a
\* JSON object.
C5_ReturnsObject ==
    pc = "done"
        => /\ ret.requests = 1
           /\ ret.raised = "" => ret.value.kind = "dict"

\* ---- extract_slide_text

\* K: the slides with a shape whose text is not empty after trimming
TextSlides ==
    {i \in 1..Len(call.deck) :
        \E k \in 1..Len(call.deck[i]) :
            call.deck[i][k].hasText /\ Strip(call.deck[i][k].text) # <<>>}

SlideWord == <<"S", "l", "i", "d", "e", " ">>

\* where a block label begins in the output
LabelStarts ==
    {p \in 1..(Len(ret.text) - Len(SlideWord)) :
        SubSeq(ret.text, p, p + Len(SlideWord) - 1) = SlideWord}

\* the label of slide i, followed by a line break, begins at p
LabelAt(p, i) ==
    /\ p + Len(SlideLabel(i)) <= Len(ret.text)
    /\ SubSeq(ret.text, p, p + Len(SlideLabel(i)) - 1) = SlideLabel(i)
    /\ ret.text[p + Len(SlideLabel(i))] = "\n"

\* C8: the output holds exactly |K| blocks; the block of the r-th slide of K
\* is the r-th block, it is labelled "Slide n:" with the slide's own
\* position n, the first block opens the output and every other block
\* follows a blank line; with K empty the output is the empty string.
C8_SlideBlocks ==
    pc = "done"
        => /\ Cardinality(LabelStarts) = Cardinality(TextSlides)
           /\ TextSlides = {} => ret.text = <<>>
           /\ \A i \in TextSlides :
                \E p \in LabelStarts :
                   /\ LabelAt(p, i)
                   /\ Cardinality({q \in LabelStarts : q <= p})
                          = Cardinality({j \in TextSlides : j <= i})
                   /\ (\A j \in TextSlides : j >= i) => p = 1
                   /\ (\E j \in TextSlides : j < i)
                          => p > 2 /\ ret.text[p - 1] = "\n" /\ ret.text[p - 2] = "\n"

C8_Witness ==
    /\ pc = "done"
    /\ Len(call.deck) = 3
    /\ TextSlides = {1, 3}
    /\ Cardinality(LabelStarts) = 2
    /\ \E p \in LabelStarts : p > 1 /\ LabelAt(p, 3)

\* ---- the normalization of a list key

\* the value of the key; Absent when the mapping has none
ListValue == IF "challenges" \in DOMAIN call.d THEN call.d["challenges"] ELSE Absent

\* C9: the normalized value is a list of trimmed, non-empty strings, at most
\* one per input item; an absent or null value gives the empty list; and a
\* string is not turned into one bullet per character.
C9_ListShape ==
    pc = "done"
        => /\ ListValue.kind \in {"absent", "null"} => ret = Returned(<<>>)
           /\ ListValue.kind = "list"
                => /\ ret.raised = ""
                   /\ Len(ret.value) <= Len(ListValue.items)
                   /\ \A j \in 1..Len(ret.value) :
                         ret.value[j] # <<>> /\ Strip(ret.value[j]) = ret.value[j]
           /\ ListValue.kind = "str"
                => ~(ret.raised = "" /\ Len(ret.value) > 1
                     /\ \A j \in 1..Len(ret.value) : Len(ret.value[j]) = 1)

-----------------------------------------------------------------------------
(* The claims about the script.                                            *)

\* the stages of a pressed execution, from what the service did
Parsed == ParseResponse(ui.resp)

Filled == fill_placeholders_in_template(AppTemplates[widgets.template_file], Parsed.value)

StagesSucceeded ==
    /\ ui.pressed
    /\ ui.resp.raised = ""
    /\ Parsed.raised = ""
    /\ Filled.raised = ""

\* C6: every press sends exactly one generation request, whatever becomes
\* of it, and an execution without a press, or one that stopped for a
\* missing credential or file, sends none.
C6_OneRequestPerPress ==
    /\ totals.requests = totals.presses
    /\ ui.handler.requests = (IF ui.pressed THEN 1 ELSE 0)
    /\ ui.stopped # "" => (~ui.pressed /\ ui.handler.requests = 0)

C6_Witness ==
    /\ totals.presses = 2 /\ totals.requests = 2
    /\ ui.pressed /\ ui.resp.raised = "RateLimitError"
    /\ ui.handler.requests = 1

\* C7: a download is offered only in an execution whose request, parsing
\* and filling all completed without an exception; a pressed execution in
\* which one of them raised shows exactly one error message, the one of the
\* clause that caught the exception, offers no download and sent one request.
C7_DownloadOnlyOnSuccess ==
    /\ ui.handler.download => StagesSucceeded
    /\ (ui.pressed /\ ~StagesSucceeded)
          => /\ ui.handler.raised # ""
             /\ Len(ui.handler.errors) = 1
             /\ ui.handler.errors[1] = ErrorMessage(ui.handler.raised)
             /\ ~ui.handler.download /\ ~ui.handler.success
             /\ ui.handler.final_docx = NoDoc
             /\ ui.handler.requests = 1
    /\ ~ui.pressed => (ui.handler.errors = <<>> /\ ~ui.handler.download)

C7_Witness ==
    /\ ui.pressed
    /\ ui.resp.raised = "" /\ Parsed.raised = "" /\ Filled.raised = "AttributeError"
    /\ Len(ui.handler.errors) = 1
    /\ ~ui.handler.download

====
